---- MODULE Spec2Model ----
(***************************************************************************)
(* Binary property-list decoder (src/src/stream/binary_reader.rs) and the  *)
(* event-to-tree Builder (src/src/lib.rs).                                 *)
(*                                                                         *)
(* The decoder is an iterator over a seekable byte source.  The byte       *)
(* source is read-only and arbitrary: the model fixes the content of a     *)
(* region (the header and trailer, the object stored at an offset) the     *)
(* first time the decoder reads it, and every later read of that region    *)
(* returns the same content.  u64 quantities that take part in arithmetic  *)
(* are four 16-bit limbs, most significant first, so that products keep    *)
(* their 64-bit width.                                                     *)
(*                                                                         *)
(* The Builder consumes an iterator of events.  build is a function of the *)
(* items the iterator yields: its methods are operators over the Builder   *)
(* (the stream with the number of items pulled, and the token), and the    *)
(* streams it is run on grow item by item for as long as build would pull  *)
(* the next item.                                                          *)
(***************************************************************************)
EXTENDS Integers, Sequences, FiniteSets, TLC

\* ---------------------------------------------------------------- bounds
\* Largest number of entries of the offset table of a byte source.
MaxObjects == 3
\* Largest number of object references that the containers of a byte source
\* hold, all containers together.
MaxRefs == 3

\* Largest number of items of an event stream handed to the Builder.
MaxEvents == 7
\* Largest number of object references that the containers hold which are
\* read before an integer, a real, a date or an object with an unsupported
\* header.
MaxValueRefs == 1

\* ------------------------------------------------------------ u64 values
Limb == 256 * 256
U64(n) == <<0, 0, 0, n>>
U64Max == <<65535, 65535, 65535, 65535>>
\* 2^63: a length whose product with 2 leaves the 64-bit range
U64Huge == <<32768, 0, 0, 0>>
IsSmall(u) == u[1] = 0 /\ u[2] = 0 /\ u[3] = 0
Small(u) == u[4]
U64Leq(a, b) ==
    \/ a[1] < b[1]
    \/ a[1] = b[1] /\ a[2] < b[2]
    \/ a[1] = b[1] /\ a[2] = b[2] /\ a[3] < b[3]
    \/ a[1] = b[1] /\ a[2] = b[2] /\ a[3] = b[3] /\ a[4] <= b[4]

\* the 80-bit product of a u64 and a small factor: <<carry out, four limbs>>
MulWide(u, k) ==
    LET p4 == u[4] * k
        p3 == u[3] * k + (p4 \div Limb)
        p2 == u[2] * k + (p3 \div Limb)
        p1 == u[1] * k + (p2 \div Limb)
    IN  [carry |-> p1 \div Limb,
         low   |-> <<p1 % Limb, p2 % Limb, p3 % Limb, p4 % Limb>>]

wrapping_mul(u, k) == MulWide(u, k).low
saturating_mul(u, k) ==
    IF MulWide(u, k).carry > 0 THEN U64Max ELSE MulWide(u, k).low
\* None is <<>>
checked_mul(u, k) ==
    IF MulWide(u, k).carry > 0 THEN <<>> ELSE MulWide(u, k).low

saturating_sub(a, b) == IF a < b THEN 0 ELSE a - b

\* ---------------------------------------------------------------- results
Ok(v) == [tag |-> "Ok", val |-> v, err |-> "-"]
Err(e) == [tag |-> "Err", val |-> <<>>, err |-> e]
IsOk(r) == r.tag = "Ok"
\* a panic: the call does not return; like an error it ends every caller
Panic(msg) == [tag |-> "Panic", val |-> <<>>, err |-> msg]
IsPanic(r) == "tag" \in DOMAIN r /\ r.tag = "Panic"

\* Event: e is the variant, n the declared length of a start event, b the
\* value of a Boolean, d the payload of a Data, String or number event
Ev(e, n, b, d) == [e |-> e, n |-> n, b |-> b, d |-> d]
StartArray(n) == Ev("StartArray", n, FALSE, <<>>)
StartDictionary(n) == Ev("StartDictionary", n, FALSE, <<>>)
EndCollection == Ev("EndCollection", 0, FALSE, <<>>)
Boolean(b) == Ev("Boolean", 0, b, <<>>)
Data(d) == Ev("Data", 0, FALSE, d)
String(d) == Ev("String", 0, FALSE, d)
Integer(d) == Ev("Integer", 0, FALSE, d)
Real(d) == Ev("Real", 0, FALSE, d)
Date(d) == Ev("Date", 0, FALSE, d)
NoEvent == Ev("-", 0, FALSE, <<>>)

\* --------------------------------------------------------- the byte source
Unread == [unread |-> TRUE]

\* What the decoder finds at an object offset: the header byte (-1: the
\* offset is at or past the end of the source), the extended length that
\* follows a 0xF size nibble, and the units that can be read after the
\* length before the source ends (object references for a container, bytes
\* for data and ASCII strings, 16-bit units for UTF-16 strings).
Obj(token, ext, avail) ==
    [unread |-> FALSE, token |-> token, ext |-> ext, avail |-> avail]

Refs == 0..MaxObjects
RefSeqs(n) == [1..n -> Refs]

ScalarObjs == {Obj(8, U64(0), <<>>), Obj(9, U64(0), <<>>)}
BadObjs == {Obj(-1, U64(0), <<>>), Obj(0, U64(0), <<>>)}
ArrayObjs ==
    UNION {{Obj(160 + n, U64(0), r) : r \in RefSeqs(n)} : n \in 0..MaxRefs}
DictObjs ==
    UNION {{Obj(208 + n, U64(0), r) : r \in RefSeqs(2 * n)} :
              n \in 0..(MaxRefs \div 2)}
\* an ASCII string of 3 bytes
StringObjs == {Obj(83, U64(0), <<97, 98, 99>>)}
\* containers whose references end before the declared length, objects
\* whose declared length is 2^63, data of 3 bytes, a string with a byte that
\* is not ASCII, UTF-16 strings of 2 units one of them with a lone surrogate
OtherObjs ==
    {Obj(161, U64(0), <<>>), Obj(209, U64(0), <<0>>),
     Obj(175, U64Huge, <<>>), Obj(223, U64Huge, <<>>),
     Obj(79, U64Huge, <<>>), Obj(95, U64Huge, <<>>), Obj(111, U64Huge, <<>>),
     Obj(67, U64(0), <<1, 2, 3>>), Obj(83, U64(0), <<97, 255, 99>>),
     Obj(98, U64(0), <<97, 98>>), Obj(98, U64(0), <<97, 55296>>)}
\* Integers of 1, 2, 4, 8 and 16 bytes: 255, 65534, 2^31 + 1; -1, -2^63
\* and 2^63 - 1 in 8 bytes; 2^64 - 1, -1, 2^64 and -2^127 in 16 bytes; an
\* integer of 8 bytes that ends after 3; the size nibbles 5 and 0xF.
Bytes(n, b) == [i \in 1..n |-> b]
IntegerObjs ==
    {Obj(16, U64(0), <<255>>), Obj(17, U64(0), <<255, 254>>),
     Obj(18, U64(0), <<128, 0, 0, 1>>),
     Obj(19, U64(0), Bytes(8, 255)),
     Obj(19, U64(0), <<128>> \o Bytes(7, 0)),
     Obj(19, U64(0), <<127>> \o Bytes(7, 255)),
     Obj(20, U64(0), Bytes(8, 0) \o Bytes(8, 255)),
     Obj(20, U64(0), Bytes(16, 255)),
     Obj(20, U64(0), Bytes(7, 0) \o <<1>> \o Bytes(8, 0)),
     Obj(20, U64(0), <<128>> \o Bytes(15, 0)),
     Obj(19, U64(0), <<1, 2, 3>>),
     Obj(21, U64(0), Bytes(16, 0)), Obj(31, U64(0), Bytes(16, 0))}
\* the reals 1.0 of 4 and of 8 bytes and the date of 0.0 seconds
FloatObjs ==
    {Obj(34, U64(0), <<63, 128, 0, 0>>),
     Obj(35, U64(0), <<63, 240>> \o Bytes(6, 0)),
     Obj(51, U64(0), Bytes(8, 0))}
\* Headers of tag 0 other than the booleans, reals and dates of other
\* sizes and the tags 7, 8, 9, 0xB, 0xC, 0xE and 0xF, each followed by 8
\* bytes
MarkerTokens ==
    {1, 10, 15, 32, 33, 36, 47, 48, 50, 52, 63, 112, 128, 129, 144, 176,
     192, 224, 240, 255}
MarkerObjs == {Obj(token, U64(0), Bytes(8, 0)) : token \in MarkerTokens}
Objs ==
    ScalarObjs \cup StringObjs \cup BadObjs \cup ArrayObjs \cup DictObjs
        \cup OtherObjs \cup IntegerObjs \cup FloatObjs \cup MarkerObjs
\* the objects that come only at the offset of the last table entry
LastObjs ==
    StringObjs \cup OtherObjs \cup IntegerObjs \cup FloatObjs
        \cup MarkerObjs

IsContainer(obj) == ~obj.unread /\ obj.token \div 16 \in {10, 13}

\* The header and the trailer: the length of the source in bytes, whether
\* its first 8 bytes are the magic number, the trailer's fields and the
\* integers of the offset width that can be read at the offset table's
\* position before the source ends.
Trailer(flen, magic, offset_size, ref_size, num_objects, root_object, table) ==
    [unread |-> FALSE, flen |-> flen, magic |-> magic,
     offset_size |-> offset_size, ref_size |-> ref_size,
     num_objects |-> num_objects, root_object |-> root_object,
     table |-> table]

MagicLen == 8
TrailerLen == 32
TrailerPadding == 6
\* length of the source for which max_allocation_bytes is n
FileLen(n) == MagicLen + n + (TrailerLen - TrailerPadding)
OffsetTable(n) == [i \in 1..n |-> i - 1]

\* Sources that initialise: max_allocation_bytes is 2 (a source of 36
\* bytes) or enough for every object, references have 1 or 2 bytes, the
\* offset table is empty, has one entry or has MaxObjects entries, and the
\* root is index 0 or the first index past the offset table.
ShortLen == FileLen(2)
LongLen == FileLen(8 * (MaxObjects + MaxRefs))
GoodTrailers ==
    {Trailer(x[1][1], TRUE, 1, x[1][2], U64(x[2]), x[3], OffsetTable(x[2])) :
        x \in {y \in {<<LongLen, 1>>, <<ShortLen, 1>>, <<ShortLen, 2>>}
                     \X {0, 1, MaxObjects} \X (0..MaxObjects) :
                /\ y[3] \in {0, y[2]}
                /\ y[1][1] = ShortLen => y[2] <= 1}}

\* Sources on which initialisation fails: an empty source, a wrong magic
\* number, a source that ends after the magic number, widths that are not
\* 1, 2, 4 or 8, an object count above max_allocation_bytes, and an offset
\* table that lies past the end.  The fields that are never read are left
\* at a fixed value.
BadTrailers ==
    {Trailer(0, FALSE, 1, 1, U64(0), 0, <<>>),
     Trailer(LongLen, FALSE, 1, 1, U64(0), 0, <<>>),
     Trailer(MagicLen, TRUE, 1, 1, U64(0), 0, <<>>),
     Trailer(LongLen, TRUE, 3, 1, U64(0), 0, <<>>),
     Trailer(LongLen, TRUE, 1, 0, U64(1), 0, <<0>>),
     Trailer(LongLen, TRUE, 1, 3, U64(1), 0, <<0>>),
     Trailer(ShortLen, TRUE, 1, 1, U64(3), 0, <<0, 1, 2>>),
     Trailer(ShortLen, TRUE, 4, 1, U64(1), 0, <<0>>),
     Trailer(LongLen, TRUE, 1, 1, U64Huge, 0, <<>>),
     Trailer(LongLen, TRUE, 2, 1, U64Huge, 0, <<>>),
     Trailer(LongLen, TRUE, 1, 1, U64(1), 0, <<>>)}
Trailers == BadTrailers \cup GoodTrailers

\* ------------------------------------------------------------ BinaryReader
\* the BinaryReader's fields other than the byte source
Reader(stack, object_offsets, object_on_stack, ref_size, root_object, max_allocation_bytes) ==
    [stack |-> stack, object_offsets |-> object_offsets,
     object_on_stack |-> object_on_stack, ref_size |-> ref_size,
     root_object |-> root_object,
     max_allocation_bytes |-> max_allocation_bytes]

StackItem(object_ref, child_object_refs, ty) ==
    [object_ref |-> object_ref, child_object_refs |-> child_object_refs,
     ty |-> ty]

\* BinaryReader::new
new == Reader(<<>>, <<>>, <<>>, 0, 0, 0)

\* the outcome of a method that may change the reader: the reader after
\* the call and the value or error returned
Out(self, res) == [self |-> self, res |-> res]

\* can_allocate with a product that wraps around
can_allocate_wrapping(self, len, size) ==
    LET byte_len == wrapping_mul(len, size)
    IN  U64Leq(byte_len, U64(self.max_allocation_bytes))

can_allocate(self, len, size) ==
    LET byte_len == saturating_mul(len, size)
    IN  U64Leq(byte_len, U64(self.max_allocation_bytes))

\* the vector is returned empty; Ok carries no value in the model
allocate_vec(self, len, size) ==
    IF can_allocate(self, len, size) THEN Ok(<<>>) ELSE Err("InvalidData")

\* the first len of the integers that the source holds at the current
\* position; the read that finds the source exhausted fails
read_ints(self, len, size, avail) ==
    IF ~IsOk(allocate_vec(self, len, size)) THEN Err("InvalidData")
    ELSE IF len = U64(0) THEN Ok(<<>>)
    ELSE IF size \notin {1, 2, 4, 8} THEN Err("InvalidData")
    ELSE IF IsSmall(len) /\ Small(len) <= Len(avail)
         THEN Ok(SubSeq(avail, 1, Small(len)))
    ELSE Err("Io")

read_refs(self, len, avail) == read_ints(self, len, self.ref_size, avail)

read_object_len(obj, len) ==
    IF len % 16 = 15 THEN Ok(obj.ext) ELSE Ok(U64(len))

read_data(self, len, avail) ==
    IF ~IsOk(allocate_vec(self, len, 1)) THEN Err("InvalidData")
    ELSE IF IsSmall(len) /\ Small(len) <= Len(avail)
         THEN Ok(SubSeq(avail, 1, Small(len)))
    ELSE Err("Io")

\* read_trailer without the check of the reference width
read_trailer_any_ref_size(self, t) ==
    IF t.flen < MagicLen THEN Out(self, Err("Io"))
    ELSE IF ~t.magic THEN Out(self, Err("InvalidData"))
    ELSE IF t.flen < TrailerLen - TrailerPadding THEN Out(self, Err("Io"))
    ELSE IF t.offset_size \notin {1, 2, 4, 8}
         THEN Out(self, Err("InvalidData"))
    ELSE
    LET trailer_start == t.flen - (TrailerLen - TrailerPadding)
        s2 == [self EXCEPT !.ref_size = t.ref_size,
                           !.root_object = t.root_object,
                           !.max_allocation_bytes =
                               saturating_sub(trailer_start, MagicLen)]
        ints == read_ints(s2, t.num_objects, t.offset_size, t.table)
    IN  IF ~IsOk(ints) THEN Out(s2, ints)
        ELSE Out([s2 EXCEPT !.object_offsets = ints.val,
                            !.object_on_stack =
                                [i \in 1..Len(ints.val) |-> FALSE]],
                 Ok(<<>>))

\* read_trailer that leaves object_on_stack empty
read_trailer_empty_bitmap(self, t) ==
    IF t.flen < MagicLen THEN Out(self, Err("Io"))
    ELSE IF ~t.magic THEN Out(self, Err("InvalidData"))
    ELSE IF t.flen < TrailerLen - TrailerPadding THEN Out(self, Err("Io"))
    ELSE IF t.offset_size \notin {1, 2, 4, 8}
         THEN Out(self, Err("InvalidData"))
    ELSE
    LET trailer_start == t.flen - (TrailerLen - TrailerPadding)
        s1 == [self EXCEPT !.ref_size = t.ref_size]
        s2 == [s1 EXCEPT !.root_object = t.root_object,
                         !.max_allocation_bytes =
                             saturating_sub(trailer_start, MagicLen)]
        ints == read_ints(s2, t.num_objects, t.offset_size, t.table)
    IN  IF t.ref_size \notin {1, 2, 4, 8} THEN Out(s1, Err("InvalidData"))
        ELSE IF ~IsOk(ints) THEN Out(s2, ints)
        ELSE Out([s2 EXCEPT !.object_offsets = ints.val], Ok(<<>>))

read_trailer(self, t) ==
    IF t.flen < MagicLen THEN Out(self, Err("Io"))
    ELSE IF ~t.magic THEN Out(self, Err("InvalidData"))
    ELSE IF t.flen < TrailerLen - TrailerPadding THEN Out(self, Err("Io"))
    ELSE IF t.offset_size \notin {1, 2, 4, 8}
         THEN Out(self, Err("InvalidData"))
    ELSE
    LET trailer_start == t.flen - (TrailerLen - TrailerPadding)
        s1 == [self EXCEPT !.ref_size = t.ref_size]
        s2 == [s1 EXCEPT !.root_object = t.root_object,
                         !.max_allocation_bytes =
                             saturating_sub(trailer_start, MagicLen)]
        ints == read_ints(s2, t.num_objects, t.offset_size, t.table)
    IN  IF t.ref_size \notin {1, 2, 4, 8} THEN Out(s1, Err("InvalidData"))
        ELSE IF ~IsOk(ints) THEN Out(s2, ints)
        ELSE Out([s2 EXCEPT !.object_offsets = ints.val,
                            !.object_on_stack =
                                [i \in 1..Len(ints.val) |-> FALSE]],
                 Ok(<<>>))

\* seek_to_object that leaves an index past the table to the seek, which
\* fails past the end of the source
seek_to_object_unchecked(self, object_ref) ==
    IF object_ref < Len(self.object_offsets)
    THEN Ok(self.object_offsets[object_ref + 1])
    ELSE Err("Io")

\* object_ref indexes from 0, sequences from 1
seek_to_object(self, object_ref) ==
    IF object_ref < Len(self.object_offsets)
    THEN Ok(self.object_offsets[object_ref + 1])
    ELSE Err("InvalidData")

\* the push without the check of object_on_stack
push_unchecked(self, item) ==
    Out([self EXCEPT !.object_on_stack[item.object_ref + 1] = TRUE,
                     !.stack = Append(self.stack, item)],
        Ok(<<>>))

\* the check and the flag without the push
push_forgets_frame(self, item) ==
    IF self.object_on_stack[item.object_ref + 1]
    THEN Out(self, Err("InvalidData"))
    ELSE Out([self EXCEPT !.object_on_stack[item.object_ref + 1] = TRUE],
             Ok(<<>>))

\* indexing object_on_stack at or past its length panics
push_stack_item_and_check_for_recursion(self, item) ==
    IF item.object_ref >= Len(self.object_on_stack)
    THEN Out(self, Panic("index out of bounds"))
    ELSE IF self.object_on_stack[item.object_ref + 1]
    THEN Out(self, Err("InvalidData"))
    ELSE Out([self EXCEPT !.object_on_stack[item.object_ref + 1] = TRUE,
                          !.stack = Append(self.stack, item)],
             Ok(<<>>))

\* the pop that leaves the object's flag set
pop_keeps_flag(self) ==
    LET item == self.stack[Len(self.stack)]
    IN  Out([self EXCEPT !.stack = SubSeq(self.stack, 1, Len(self.stack) - 1)],
            item)

\* res is the popped item; the expect on an empty stack and the indexing
\* of object_on_stack at or past its length panic
pop_stack_item(self) ==
    LET item == self.stack[Len(self.stack)]
    IN  IF self.stack = <<>>
        THEN Out(self, Panic("internal consistency error"))
        ELSE IF item.object_ref >= Len(self.object_on_stack)
        THEN Out([self EXCEPT !.stack =
                                  SubSeq(self.stack, 1, Len(self.stack) - 1)],
                 Panic("index out of bounds"))
        ELSE Out([self EXCEPT !.stack =
                                  SubSeq(self.stack, 1, Len(self.stack) - 1),
                              !.object_on_stack[item.object_ref + 1] = FALSE],
                 item)

\* the references left in stored order
NotReversed(s) == s

\* Vec::reverse
Reverse(s) == [i \in 1..Len(s) |-> s[Len(s) + 1 - i]]

\* String::from_utf8 on bytes that are ASCII or 0xFF: the string has one
\* char per byte, and a byte that is not ASCII is rejected
from_utf8(raw) ==
    IF \A i \in 1..Len(raw) : raw[i] < 128 THEN Ok(raw)
    ELSE Err("InvalidData")

IsHighSurrogate(u) == 55296 <= u /\ u <= 56319
IsLowSurrogate(u) == 56320 <= u /\ u <= 57343

\* String::from_utf16: the chars of the units, a surrogate pair giving one
\* char, an unpaired surrogate an error
RECURSIVE from_utf16(_)
from_utf16(raw) ==
    IF raw = <<>> THEN Ok(<<>>)
    ELSE IF IsLowSurrogate(raw[1]) THEN Err("InvalidData")
    ELSE IF IsHighSurrogate(raw[1])
         THEN IF Len(raw) >= 2 /\ IsLowSurrogate(raw[2])
              THEN LET rest == from_utf16(SubSeq(raw, 3, Len(raw)))
                       c == 65536 + (raw[1] - 55296) * 1024 + (raw[2] - 56320)
                   IN  IF IsOk(rest) THEN Ok(<<c>> \o rest.val) ELSE rest
              ELSE Err("InvalidData")
    ELSE LET rest == from_utf16(Tail(raw))
         IN  IF IsOk(rest) THEN Ok(<<raw[1]>> \o rest.val) ELSE rest

\* read_exact of n bytes at the current position
read_exact(n, avail) ==
    IF n <= Len(avail) THEN Ok(SubSeq(avail, 1, n)) ELSE Err("Io")

\* the (0xa, n) arm of read_next
read_array(self, object_ref, obj, n) ==
    LET len == read_object_len(obj, n).val
        child_object_refs == read_refs(self, len, obj.avail)
        pushed == push_stack_item_and_check_for_recursion(self,
                      StackItem(object_ref, Reverse(child_object_refs.val),
                                "Array"))
    IN  IF ~IsOk(child_object_refs) THEN Out(self, child_object_refs)
        ELSE IF ~IsOk(pushed.res) THEN pushed
        ELSE Out(pushed.self, Ok(<<StartArray(Small(len))>>))

\* the (0xd, n) arm of read_next
read_dict(self, object_ref, obj, n) ==
    LET len == read_object_len(obj, n).val
        key_refs == read_refs(self, len, obj.avail)
        value_refs == read_refs(self, len,
                          SubSeq(obj.avail, Small(len) + 1, Len(obj.avail)))
        keys_and_values_len == checked_mul(len, 2)
        klen == Len(key_refs.val)
        child_object_refs ==
            [j \in 1..(2 * klen) |->
                IF j % 2 = 1 THEN value_refs.val[klen - ((j + 1) \div 2) + 1]
                ELSE key_refs.val[klen - (j \div 2) + 1]]
        pushed == push_stack_item_and_check_for_recursion(self,
                      StackItem(object_ref, child_object_refs, "Dict"))
    IN  IF ~IsOk(key_refs) THEN Out(self, key_refs)
        ELSE IF ~IsOk(value_refs) THEN Out(self, value_refs)
        ELSE IF keys_and_values_len = <<>> THEN Out(self, Err("InvalidData"))
        ELSE IF ~IsOk(allocate_vec(self, keys_and_values_len, self.ref_size))
             THEN Out(self, Err("InvalidData"))
        ELSE IF Len(value_refs.val) < klen
             THEN Out(self, Panic("index out of bounds"))
        ELSE IF ~IsOk(pushed.res) THEN pushed
        ELSE Out(pushed.self, Ok(<<StartDictionary(klen)>>))

\* the (0x6, n) arm of read_next
read_utf16(self, obj, n) ==
    LET len_utf16_codepoints == read_object_len(obj, n).val
        raw_utf16 == read_ints(self, len_utf16_codepoints, 2, obj.avail)
        string == from_utf16(raw_utf16.val)
    IN  IF ~IsOk(raw_utf16) THEN raw_utf16
        ELSE IF ~IsOk(string) THEN string
        ELSE Ok(<<String(string.val)>>)

\* the (0x5, n) arm of read_next
read_ascii(self, obj, n) ==
    LET len == read_object_len(obj, n).val
        raw == read_data(self, len, obj.avail)
        string == from_utf8(raw.val)
    IN  IF ~IsOk(raw) THEN raw
        ELSE IF ~IsOk(string) THEN string
        ELSE Ok(<<String(string.val)>>)

\* the (0x4, n) arm of read_next
read_blob(self, obj, n) ==
    LET len == read_object_len(obj, n).val
        data == read_data(self, len, obj.avail)
    IN  IF ~IsOk(data) THEN data ELSE Ok(<<Data(data.val)>>)

\* a real or a date of `width` bytes; the event of variant e carries the
\* bits, big-endian
read_number(obj, width, e) ==
    LET buf == read_exact(width, obj.avail)
    IN  IF ~IsOk(buf) THEN buf ELSE Ok(<<Ev(e, 0, FALSE, buf.val)>>)

\* u8, u16, u32, u64, i64 and i128::from_be_bytes: the value as 16-bit
\* limbs, most significant first (one limb for a single byte)
from_be_bytes(buf) ==
    IF Len(buf) = 1 THEN <<buf[1]>>
    ELSE [i \in 1..(Len(buf) \div 2) |-> buf[2 * i - 1] * 256 + buf[2 * i]]

\* The value of an Integer is a signed 128-bit number, here the 8 limbs of
\* its two's complement form.  From<u8>, From<u16>, From<u32> and From<u64>:
from_unsigned(value) ==
    [i \in 1..8 |-> IF i <= 8 - Len(value) THEN 0
                    ELSE value[i - (8 - Len(value))]]

\* From<i64> that takes the 64 bits for an unsigned number
from_i64_unsigned(value) ==
    [i \in 1..8 |-> IF i <= 4 THEN 0 ELSE value[i - 4]]

\* From<i64>
from_i64(value) ==
    [i \in 1..8 |-> IF i <= 4 THEN (IF value[1] >= 32768 THEN 65535 ELSE 0)
                    ELSE value[i - 4]]

\* the (0x1, 0), (0x1, 1) and (0x1, 2) arms: read_u8, read_be_u16,
\* read_be_u32
read_unsigned(obj, width) ==
    LET buf == read_exact(width, obj.avail)
    IN  IF ~IsOk(buf) THEN buf
        ELSE Ok(<<Integer(from_unsigned(from_be_bytes(buf.val)))>>)

\* the (0x1, 3) arm: read_be_i64
read_signed(obj) ==
    LET buf == read_exact(8, obj.avail)
    IN  IF ~IsOk(buf) THEN buf
        ELSE Ok(<<Integer(from_i64(from_be_bytes(buf.val)))>>)

\* the (0x1, 4) arm: read_be_i128; value < 0 is the sign bit, and a value
\* that is not negative is above u64::MAX when its high 64 bits are not 0
read_i128(obj) ==
    LET buf == read_exact(16, obj.avail)
        value == from_be_bytes(buf.val)
    IN  IF ~IsOk(buf) THEN buf
        ELSE IF value[1] >= 32768 \/ \E i \in 1..4 : value[i] # 0
             THEN Err("InvalidData")
        ELSE Ok(<<Integer(from_unsigned(SubSeq(value, 5, 8)))>>)

\* read_next from the header byte on: the object at the offset of
\* object_ref is obj
\* read_object with a null object read as the boolean false
read_object_null_as_false(self, object_ref, obj) ==
    LET token == obj.token
        ty == token \div 16
        size == token % 16
    IN  IF token < 0 THEN Out(self, Err("Io"))
        ELSE IF ty = 0 /\ size \in {0, 8}
             THEN Out(self, Ok(<<Boolean(FALSE)>>))
        ELSE IF ty = 0 /\ size = 9 THEN Out(self, Ok(<<Boolean(TRUE)>>))
        ELSE IF ty = 1 /\ size = 0 THEN Out(self, read_unsigned(obj, 1))
        ELSE IF ty = 1 /\ size = 1 THEN Out(self, read_unsigned(obj, 2))
        ELSE IF ty = 1 /\ size = 2 THEN Out(self, read_unsigned(obj, 4))
        ELSE IF ty = 1 /\ size = 3 THEN Out(self, read_signed(obj))
        ELSE IF ty = 1 /\ size = 4 THEN Out(self, read_i128(obj))
        ELSE IF ty = 2 /\ size = 2 THEN Out(self, read_number(obj, 4, "Real"))
        ELSE IF ty = 2 /\ size = 3 THEN Out(self, read_number(obj, 8, "Real"))
        ELSE IF ty = 3 /\ size = 3 THEN Out(self, read_number(obj, 8, "Date"))
        ELSE IF ty = 4 THEN Out(self, read_blob(self, obj, size))
        ELSE IF ty = 5 THEN Out(self, read_ascii(self, obj, size))
        ELSE IF ty = 6 THEN Out(self, read_utf16(self, obj, size))
        ELSE IF ty = 10 THEN read_array(self, object_ref, obj, size)
        ELSE IF ty = 13 THEN read_dict(self, object_ref, obj, size)
        ELSE Out(self, Err("InvalidData"))

read_object(self, object_ref, obj) ==
    LET token == obj.token
        ty == token \div 16
        size == token % 16
    IN  IF token < 0 THEN Out(self, Err("Io"))
        ELSE IF ty = 0 /\ size = 8 THEN Out(self, Ok(<<Boolean(FALSE)>>))
        ELSE IF ty = 0 /\ size = 9 THEN Out(self, Ok(<<Boolean(TRUE)>>))
        ELSE IF ty = 1 /\ size = 0 THEN Out(self, read_unsigned(obj, 1))
        ELSE IF ty = 1 /\ size = 1 THEN Out(self, read_unsigned(obj, 2))
        ELSE IF ty = 1 /\ size = 2 THEN Out(self, read_unsigned(obj, 4))
        ELSE IF ty = 1 /\ size = 3 THEN Out(self, read_signed(obj))
        ELSE IF ty = 1 /\ size = 4 THEN Out(self, read_i128(obj))
        ELSE IF ty = 2 /\ size = 2 THEN Out(self, read_number(obj, 4, "Real"))
        ELSE IF ty = 2 /\ size = 3 THEN Out(self, read_number(obj, 8, "Real"))
        ELSE IF ty = 3 /\ size = 3 THEN Out(self, read_number(obj, 8, "Date"))
        ELSE IF ty = 4 THEN Out(self, read_blob(self, obj, size))
        ELSE IF ty = 5 THEN Out(self, read_ascii(self, obj, size))
        ELSE IF ty = 6 THEN Out(self, read_utf16(self, obj, size))
        ELSE IF ty = 10 THEN read_array(self, object_ref, obj, size)
        ELSE IF ty = 13 THEN read_dict(self, object_ref, obj, size)
        ELSE Out(self, Err("InvalidData"))

\* size_of::<T>() of the element types of the vectors
size_of(T) == CASE T = "u8" -> 1 [] T = "u16" -> 2 [] T = "u64" -> 8

\* The buffers allocate_vec::<T>(len, size) allocates, as their sizes in
\* bytes: Vec::with_capacity(len) of T if can_allocate holds, none
\* otherwise.
with_capacity(self, len, size, T) ==
    IF can_allocate(self, len, size) THEN <<Small(len) * size_of(T)>>
    ELSE <<>>

\* the buffers read_trailer allocates: the Vec<u64> of read_ints for the
\* offset table, when the checks before it pass
trailer_buffers(self, t) ==
    IF \/ t.flen < TrailerLen - TrailerPadding
       \/ ~t.magic
       \/ t.offset_size \notin {1, 2, 4, 8}
       \/ t.ref_size \notin {1, 2, 4, 8}
    THEN <<>>
    ELSE with_capacity(read_trailer(self, t).self, t.num_objects,
                       t.offset_size, "u64")

\* the buffers the arms of read_next allocate for the object: the Vec<u8>
\* of read_data, the Vec<u16> of the UTF-16 arm, the Vec<u64> of read_refs
\* and of the dictionary's child_object_refs
object_buffers(self, obj) ==
    LET ty == obj.token \div 16
        len == read_object_len(obj, obj.token % 16).val
        keys == read_refs(self, len, obj.avail)
        values == read_refs(self, len,
                      SubSeq(obj.avail, Small(len) + 1, Len(obj.avail)))
    IN  IF obj.token < 0 THEN <<>>
        ELSE IF ty \in {4, 5} THEN with_capacity(self, len, 1, "u8")
        ELSE IF ty = 6 THEN with_capacity(self, len, 2, "u16")
        ELSE IF ty = 10 THEN with_capacity(self, len, self.ref_size, "u64")
        ELSE IF ty = 13
             THEN with_capacity(self, len, self.ref_size, "u64")
                  \o (IF IsOk(keys)
                      THEN with_capacity(self, len, self.ref_size, "u64")
                      ELSE <<>>)
                  \o (IF IsOk(keys) /\ IsOk(values)
                         /\ checked_mul(len, 2) # <<>>
                      THEN with_capacity(self, checked_mul(len, 2),
                                         self.ref_size, "u64")
                      ELSE <<>>)
        ELSE <<>>

\* the buffers one call of read_next allocates, sel being its choice of the
\* object to visit
buffers(self, t, sel, obj) ==
    (IF self.ref_size = 0 THEN trailer_buffers(self, t) ELSE <<>>)
    \o (IF sel.tag = "Visit" THEN object_buffers(sel.self, obj) ELSE <<>>)

\* read_next up to seek_to_object: the object to visit next (tag "Visit",
\* with its reference and its offset), or the value read_next returns
\* without reading an object (tag "Return"; object_ref is the reference
\* that was looked up, -1 if none was)
Visit(self, object_ref, offset) ==
    [self |-> self, tag |-> "Visit", object_ref |-> object_ref,
     offset |-> offset, res |-> Ok(<<>>)]
Return(self, object_ref, res) ==
    [self |-> self, tag |-> "Return", object_ref |-> object_ref,
     offset |-> -1, res |-> res]

seek_or_return(self, object_ref) ==
    LET offset == seek_to_object(self, object_ref)
    IN  IF IsOk(offset) THEN Visit(self, object_ref, offset.val)
        ELSE Return(self, object_ref, offset)

next_object(self, t) ==
    IF self.ref_size = 0
    THEN LET init == read_trailer(self, t)
         IN  IF IsOk(init.res)
             THEN seek_or_return(init.self, init.self.root_object)
             ELSE Return(init.self, -1, init.res)
    ELSE IF self.stack = <<>> THEN Return(self, -1, Ok(<<>>))
    ELSE LET top == Len(self.stack)
             refs == self.stack[top].child_object_refs
         IN  IF refs # <<>>
             THEN seek_or_return(
                      [self EXCEPT !.stack[top].child_object_refs =
                                       SubSeq(refs, 1, Len(refs) - 1)],
                      refs[Len(refs)])
             ELSE IF IsPanic(pop_stack_item(self).res)
             THEN Return(pop_stack_item(self).self, -1,
                         pop_stack_item(self).res)
             ELSE Return(pop_stack_item(self).self, -1,
                         Ok(<<EndCollection>>))

\* sel is the outcome of next_object and obj the object at sel.offset;
\* Ok(<<>>) is Ok(None), Ok(<<e>>) is Ok(Some(e))
read_next(sel, obj) ==
    IF sel.tag = "Return" THEN Out(sel.self, sel.res)
    ELSE read_object(sel.self, sel.object_ref, obj)

\* next that leaves the stack as it is on an error
next_keeps_stack(r) == r

\* next that on an error empties the offset table with the stack
next_clears_offsets(r) ==
    IF IsOk(r.res) THEN r
    ELSE Out([r.self EXCEPT !.stack = <<>>, !.object_offsets = <<>>], r.res)

\* Iterator::next on the outcome r of read_next: Ok(<<>>) is None,
\* Ok(<<e>>) is Some(Ok(e)), Err(e) is Some(Err(e))
next(r) ==
    IF IsOk(r.res) \/ IsPanic(r.res) THEN r
    ELSE Out([r.self EXCEPT !.stack = <<>>], r.res)

\* ------------------------------------------------------------------ Builder
\* the value bound by a one-element set
The(S) == CHOOSE x \in S : TRUE

\* PlistEvent: e is the variant, len the declared length of a start event
\* (<<>> is None, <<k>> is Some(k), k a u64), b the value of a BooleanValue, n of an
\* IntegerValue or RealValue, s of a StringValue or DateValue, d of a
\* DataValue
PlistEvent(e, len, b, n, s, d) == [e |-> e, len |-> len, b |-> b, n |-> n, s |-> s, d |-> d]
StartPlist == PlistEvent("StartPlist", <<>>, FALSE, 0, "", <<>>)
EndPlist == PlistEvent("EndPlist", <<>>, FALSE, 0, "", <<>>)
PlistStartArray(len) == PlistEvent("StartArray", len, FALSE, 0, "", <<>>)
EndArray == PlistEvent("EndArray", <<>>, FALSE, 0, "", <<>>)
PlistStartDictionary(len) == PlistEvent("StartDictionary", len, FALSE, 0, "", <<>>)
EndDictionary == PlistEvent("EndDictionary", <<>>, FALSE, 0, "", <<>>)
BooleanValue(b) == PlistEvent("BooleanValue", <<>>, b, 0, "", <<>>)
DataValue(d) == PlistEvent("DataValue", <<>>, FALSE, 0, "", d)
DateValue(s) == PlistEvent("DateValue", <<>>, FALSE, 0, s, <<>>)
IntegerValue(n) == PlistEvent("IntegerValue", <<>>, FALSE, n, "", <<>>)
RealValue(n) == PlistEvent("RealValue", <<>>, FALSE, n, "", <<>>)
StringValue(s) == PlistEvent("StringValue", <<>>, FALSE, 0, s, <<>>)

\* Plist: ty is the variant; items the elements of an Array; map the
\* entries of a Dictionary, a set of <<key, value>> with one pair a key
Plist(ty, b, n, s, d, items, map) == [ty |-> ty, b |-> b, n |-> n, s |-> s, d |-> d, items |-> items, map |-> map]
PlistArray(items) == Plist("Array", FALSE, 0, "", <<>>, items, {})
PlistDictionary(map) == Plist("Dictionary", FALSE, 0, "", <<>>, <<>>, map)
PlistBoolean(b) == Plist("Boolean", b, 0, "", <<>>, <<>>, {})
PlistData(d) == Plist("Data", FALSE, 0, "", d, <<>>, {})
PlistDate(s) == Plist("Date", FALSE, 0, s, <<>>, <<>>, {})
PlistReal(n) == Plist("Real", FALSE, n, "", <<>>, <<>>, {})
PlistInteger(n) == Plist("Integer", FALSE, n, "", <<>>, <<>>, {})
PlistString(s) == Plist("String", FALSE, 0, s, <<>>, <<>>, {})

\* BuilderError::ParserError(err)
ParserError(err) ==
    CASE err = "InvalidData" -> "ParserError(InvalidData)"
      [] err = "UnexpectedEof" -> "ParserError(UnexpectedEof)"
      [] err = "UnsupportedType" -> "ParserError(UnsupportedType)"
      [] OTHER -> "ParserError(Io)"

\* The producer of the events: an iterator over `items`, each Ok(event) or
\* Err(error), of which `pos` calls of next() have been made.
EventStream(items) == [items |-> items, pos |-> 0]

\* stream.next(): res is <<>> for None, <<item>> for Some(item)
stream_next(stream) ==
    Out([stream EXCEPT !.pos = @ + 1],
        IF stream.pos < Len(stream.items)
        THEN <<stream.items[stream.pos + 1]>> ELSE <<>>)

\* Builder: token is <<>> for None, <<event>> for Some(event)
from_event_stream(stream) == [stream |-> stream, token |-> <<>>]

\* bump taking an error of the producer for the end of the stream
bump_ends_on_error(self) ==
    LET pulled_item(nx) ==
            IF nx.res # <<>> /\ IsOk(nx.res[1])
            THEN Out([stream |-> nx.self, token |-> <<nx.res[1].val>>],
                     Ok(<<>>))
            ELSE Out([stream |-> nx.self, token |-> <<>>], Ok(<<>>))
    IN  The({pulled_item(nx) : nx \in {stream_next(self.stream)}})

bump(self) ==
    LET pulled_item(nx) ==
            IF nx.res = <<>>
            THEN Out([stream |-> nx.self, token |-> <<>>], Ok(<<>>))
            ELSE IF IsOk(nx.res[1])
            THEN Out([stream |-> nx.self, token |-> <<nx.res[1].val>>],
                     Ok(<<>>))
            ELSE Out([self EXCEPT !.stream = nx.self],
                     Err(ParserError(nx.res[1].err)))
    IN  The({pulled_item(nx) : nx \in {stream_next(self.stream)}})

\* Vec::push with the element at the front
push_front(values, v) == <<v>> \o values

\* Vec::push
push(values, v) == Append(values, v)

\* an insert that keeps the value a key already has
insert_keeps_first(values, k, v) ==
    IF \E p \in values : p[1] = k THEN values ELSE values \cup {<<k, v>>}

\* HashMap::insert
insert(values, k, v) == {p \in values : p[1] # k} \cup {<<k, v>>}

\* the `_` arm of build_dict answering with the generic grammar error
invalid_key(self) == Out(self, Err("InvalidEvent"))

\* the `_` arm of build_dict
unsupported_key(self) == Out(self, Err("UnsupportedDictionaryKey"))

\* Vec::with_capacity(len as usize) and HashMap::with_capacity(len as
\* usize), usize having 64 bits: a capacity whose size in bytes is above
\* isize::MAX panics, which a len of 2^63 or more is for any element size
capacity_overflow(len) == U64Leq(U64Huge, len)

\* let mut values of build_array: Vec::new() for None, Vec::with_capacity
\* for Some(len); the capacity does not show in the vector
array_values(len) ==
    IF len = <<>> THEN Ok(<<>>)
    ELSE IF capacity_overflow(len[1]) THEN Panic("capacity overflow")
    ELSE Ok(<<>>)

\* let mut values of build_dict: HashMap::new() for None,
\* HashMap::with_capacity for Some(len)
dict_values(len) ==
    IF len = <<>> THEN Ok({})
    ELSE IF capacity_overflow(len[1]) THEN Panic("capacity overflow")
    ELSE Ok({})

RECURSIVE build_value(_), build_array(_, _), build_dict(_, _)

\* self.token.take() is taken.token on entry; res is the Plist built
build_value(self) ==
    LET token == self.token
        taken == [self EXCEPT !.token = <<>>]
        array(a) == IF IsOk(a.res) THEN Out(a.self, Ok(PlistArray(a.res.val)))
                    ELSE a
        dict(m) == IF IsOk(m.res)
                   THEN Out(m.self, Ok(PlistDictionary(m.res.val)))
                   ELSE m
    IN  IF token = <<>> THEN Out(taken, Err("InvalidEvent"))
        ELSE CASE token[1].e = "StartPlist" -> Out(taken, Err("InvalidEvent"))
               [] token[1].e = "EndPlist" -> Out(taken, Err("InvalidEvent"))
               [] token[1].e = "StartArray" ->
                      IF ~IsOk(array_values(token[1].len))
                      THEN Out(taken, array_values(token[1].len))
                      ELSE The({array(a) : a \in {build_array(taken,
                                   array_values(token[1].len).val)}})
               [] token[1].e = "StartDictionary" ->
                      IF ~IsOk(dict_values(token[1].len))
                      THEN Out(taken, dict_values(token[1].len))
                      ELSE The({dict(m) : m \in {build_dict(taken,
                                   dict_values(token[1].len).val)}})
               [] token[1].e = "BooleanValue" ->
                      Out(taken, Ok(PlistBoolean(token[1].b)))
               [] token[1].e = "DataValue" ->
                      Out(taken, Ok(PlistData(token[1].d)))
               [] token[1].e = "DateValue" ->
                      Out(taken, Ok(PlistDate(token[1].s)))
               [] token[1].e = "IntegerValue" ->
                      Out(taken, Ok(PlistInteger(token[1].n)))
               [] token[1].e = "RealValue" ->
                      Out(taken, Ok(PlistReal(token[1].n)))
               [] token[1].e = "StringValue" ->
                      Out(taken, Ok(PlistString(token[1].s)))
               [] token[1].e = "EndArray" -> Out(taken, Err("InvalidEvent"))
               [] token[1].e = "EndDictionary" ->
                      Out(taken, Err("InvalidEvent"))

\* one turn of the loop of build_array; values is the Vec so far (the
\* capacity taken from len does not show in it)
build_array(self, values) ==
    LET pushed(v) ==
            IF IsOk(v.res) THEN build_array(v.self, push(values, v.res.val))
            ELSE v
        bumped(b) ==
            IF ~IsOk(b.res) THEN b
            ELSE IF b.self.token = <<EndArray>>
            THEN Out([b.self EXCEPT !.token = <<>>], Ok(values))
            ELSE The({pushed(v) : v \in {build_value(b.self)}})
    IN  The({bumped(b) : b \in {bump(self)}})

\* one turn of the loop of build_dict; values is the HashMap so far
build_dict(self, values) ==
    LET inserted(k, v) ==
            IF IsOk(v.res)
            THEN build_dict(v.self, insert(values, k, v.res.val))
            ELSE v
        key_bumped(k, b) ==
            IF ~IsOk(b.res) THEN b
            ELSE The({inserted(k, v) : v \in {build_value(b.self)}})
        bumped(b) ==
            LET token == b.self.token
                taken == [b.self EXCEPT !.token = <<>>]
            IN  IF ~IsOk(b.res) THEN b
                ELSE IF token = <<EndDictionary>> THEN Out(taken, Ok(values))
                ELSE IF token # <<>> /\ token[1].e = "StringValue"
                THEN The({key_bumped(token[1].s, b2) : b2 \in {bump(taken)}})
                ELSE unsupported_key(taken)
    IN  The({bumped(b) : b \in {bump(self)}})

build(self) ==
    LET ended(plist, b) ==
            IF IsOk(b.res) THEN Out(b.self, Ok(plist)) ELSE b
        finished(plist, b) ==
            IF ~IsOk(b.res) THEN b
            ELSE IF b.self.token = <<>> THEN Out(b.self, Ok(plist))
            ELSE IF b.self.token = <<EndPlist>>
            THEN The({ended(plist, b2) : b2 \in {bump(b.self)}})
            ELSE Out(b.self, Err("InvalidEvent"))
        valued(v) ==
            IF ~IsOk(v.res) THEN v
            ELSE The({finished(v.res.val, b) : b \in {bump(v.self)}})
        started(b) ==
            IF ~IsOk(b.res) THEN b
            ELSE The({valued(v) : v \in {build_value(b.self)}})
        bumped(b) ==
            IF ~IsOk(b.res) THEN b
            ELSE IF b.self.token = <<StartPlist>>
            THEN The({started(b2) : b2 \in {bump(b.self)}})
            ELSE started(b)
    IN  The({bumped(b) : b \in {bump(self)}})

\* ------------------------------------------------------------------ state
VARIABLES
    stack,                 \* BinaryReader.stack, top of the stack last
    object_offsets,        \* BinaryReader.object_offsets
    object_on_stack,       \* BinaryReader.object_on_stack
    ref_size,              \* BinaryReader.ref_size
    root_object,           \* BinaryReader.root_object
    max_allocation_bytes,  \* BinaryReader.max_allocation_bytes
    reader,                \* BinaryReader.reader: the content read so far
    last,                  \* what the latest call of next() returned
    events,                \* the events returned so far, in order
    error,                 \* the first error next() has returned, "-" if none
    visit,                 \* the object reference the latest call looked up
    tick,                  \* parity of the number of events and errors returned
    allocated,             \* bytes of each buffer the latest call allocated
    stream,                \* the items of the event stream given to the Builder
    built,                 \* what Builder::build returned
    pulled                 \* the number of items build asked the stream for

vars == <<stack, object_offsets, object_on_stack, ref_size, root_object,
          max_allocation_bytes, reader, last, events, error, visit,
          tick, allocated, stream, built, pulled>>

decoder_vars == <<stack, object_offsets, object_on_stack, ref_size,
                  root_object, max_allocation_bytes, reader, last, events,
                  error, visit, tick, allocated>>
builder_vars == <<stream, built, pulled>>

Self ==
    Reader(stack, object_offsets, object_on_stack, ref_size, root_object,
           max_allocation_bytes)

Offsets == 0..(MaxObjects - 1)
NotCalled == [tag |-> "-", val |-> <<>>, err |-> "-"]
\* object_ref: the reference looked up (-1: none); open: a frame of the
\* stack held that reference when next() was called
NoVisit == [object_ref |-> -1, open |-> FALSE]
IsOpen(object_ref) ==
    \E i \in 1..Len(stack) : stack[i].object_ref = object_ref

Init ==
    /\ stack = new.stack
    /\ object_offsets = new.object_offsets
    /\ object_on_stack = new.object_on_stack
    /\ ref_size = new.ref_size
    /\ root_object = new.root_object
    /\ max_allocation_bytes = new.max_allocation_bytes
    /\ reader = [trailer |-> Unread, at |-> [o \in Offsets |-> Unread]]
    /\ last = NotCalled
    /\ events = <<>>
    /\ error = "-"
    /\ visit = NoVisit
    /\ tick = FALSE
    /\ allocated = <<>>
    /\ stream = <<>>
    /\ built = NotCalled
    /\ pulled = 0

\* the header and trailer a call may find: what an earlier call has read,
\* or any content if this call is the first to read them
TrailerInputs ==
    IF ref_size = 0 /\ reader.trailer.unread THEN Trailers
    ELSE {reader.trailer}

\* the number of object references in the containers read so far
RECURSIVE RefsRead(_)
RefsRead(offsets) ==
    IF offsets = {} THEN 0
    ELSE LET o == CHOOSE x \in offsets : TRUE
         IN  (IF IsContainer(reader.at[o]) THEN Len(reader.at[o].avail) ELSE 0)
             + RefsRead(offsets \ {o})

\* The object a call may find at offset.  The containers of a source hold
\* at most MaxRefs references, and its objects are booleans, markers and
\* containers except for the object of the last entry of the offset table;
\* that object is an integer, a real, a date or an object with an
\* unsupported header only in a source whose containers hold at most
\* MaxValueRefs references before it.
ObjectInputs(t, offset) ==
    IF offset = -1 THEN {Unread}
    ELSE IF reader.at[offset].unread
         THEN LET left == MaxRefs - RefsRead(Offsets)
              IN  {obj \in Objs :
                      /\ IsContainer(obj) => Len(obj.avail) <= left
                      /\ obj \in LastObjs =>
                             offset = t.table[Len(t.table)]
                      /\ obj \in IntegerObjs \cup FloatObjs \cup MarkerObjs =>
                             RefsRead(Offsets) <= MaxValueRefs}
    ELSE {reader.at[offset]}

Source(t, offset, obj) ==
    [trailer |-> t,
     at |-> IF offset = -1 THEN reader.at
            ELSE [reader.at EXCEPT ![offset] = obj]]

\* one call of Iterator::next on the BinaryReader
IteratorNext ==
    \E t \in TrailerInputs :
    \E sel \in {next_object(Self, t)} :
    \E obj \in ObjectInputs(t, sel.offset) :
    \E r \in {read_next(sel, obj)} :
    \E out \in {next(r)} :
        /\ stack' = out.self.stack
        /\ object_offsets' = out.self.object_offsets
        /\ object_on_stack' = out.self.object_on_stack
        /\ ref_size' = out.self.ref_size
        /\ root_object' = out.self.root_object
        /\ max_allocation_bytes' = out.self.max_allocation_bytes
        /\ reader' = Source(t, sel.offset, obj)
        /\ last' = out.res
        /\ events' = IF IsOk(out.res) THEN events \o out.res.val ELSE events
        /\ error' = IF error = "-" /\ ~IsOk(out.res) THEN out.res.err
                    ELSE error
        /\ visit' = [object_ref |-> sel.object_ref,
                     open |-> IsOpen(sel.object_ref)]
        /\ tick' = IF out.res = Ok(<<>>) THEN tick ELSE ~tick
        /\ allocated' = buffers(Self, t, sel, obj)
        /\ UNCHANGED builder_vars

Next == IteratorNext

Spec == Init /\ [][Next]_vars

\* the caller keeps calling next()
FairSpec == Spec /\ WF_vars(IteratorNext)

\* ------------------------------------------------- the Builder's behaviours
\* Events of every variant; the payload-carrying scalars other than
\* BooleanValue and StringValue come only as the root value.
CommonEvents ==
    {StartPlist, EndPlist, PlistStartArray(<<>>), EndArray,
     PlistStartDictionary(<<>>), EndDictionary, BooleanValue(TRUE),
     StringValue("a"), StringValue("b")}
RootEvents ==
    {DataValue(<<1, 2>>), DateValue("2001-01-01T00:00:00Z"), IntegerValue(7),
     RealValue(2)}
\* the declared lengths 1 and 2^63; a start event with a declared length
\* comes only as the start of the root value
DeclaredLens == {<<U64(1)>>, <<U64Huge>>}
SizedStarts ==
    {PlistStartArray(len) : len \in DeclaredLens}
    \cup {PlistStartDictionary(len) : len \in DeclaredLens}
ItemInputs ==
    {Ok(e) : e \in CommonEvents} \cup {Err("InvalidData"), Err("UnexpectedEof")}
    \cup (IF stream \in {<<>>, <<Ok(StartPlist)>>}
          THEN {Ok(e) : e \in RootEvents \cup SizedStarts} ELSE {})

\* Builder::from_event_stream(items).build()
Built(items) == build(from_event_stream(EventStream(items)))

\* The producer is given one more item.  build never looks at an item it
\* does not pull, so the streams are those all of whose items build pulls.
Produce ==
    /\ built.tag = "-"
    /\ Len(stream) < MaxEvents
    /\ Built(stream).self.stream.pos > Len(stream)
    /\ \E item \in ItemInputs : stream' = Append(stream, item)
    /\ UNCHANGED <<built, pulled>>
    /\ UNCHANGED decoder_vars

\* Builder::from_event_stream(stream).build()
Build ==
    /\ built.tag = "-"
    /\ \E r \in {Built(stream)} :
           /\ built' = r.res
           /\ pulled' = r.self.stream.pos
    /\ UNCHANGED stream
    /\ UNCHANGED decoder_vars

BuilderNext == Produce \/ Build

BuilderSpec == Init /\ [][BuilderNext]_vars

\* ------------------------------------------------ the decoder's properties
None == Ok(<<>>)
Failed == error # "-"
\* next() has returned None and never an error
Finished == last = None /\ ~Failed

IsStart(e) == e.e \in {"StartArray", "StartDictionary"}
\* start and end events among the first k events returned
Starts(k) == Cardinality({i \in 1..k : IsStart(events[i])})
Ends(k) == Cardinality({i \in 1..k : events[i] = EndCollection})

\* C1: once next() has returned an error, every later call returns None.
C1_NoneAfterError == [][Failed => last' = None]_vars

\* C2: repeated calls of next() reach None.
C2_ReachesNone == <>(last = None)

\* C3: in every prefix of the events returned there are at most as many
\* EndCollection events as start events; when the sequence has ended
\* without an error the numbers are equal, and the events before the last
\* one leave a collection open whenever the first event opened one.
C3_Bracketed ==
    /\ \A k \in 0..Len(events) : Ends(k) <= Starts(k)
    /\ Finished =>
          /\ Starts(Len(events)) = Ends(Len(events))
          /\ \A k \in 1..(Len(events) - 1) : Ends(k) < Starts(k)
C3_Witness ==
    /\ Finished
    /\ Starts(Len(events)) >= 2
    /\ \E k \in 1..Len(events) : ~IsStart(events[k]) /\ events[k] # EndCollection

\* -- the source as the format describes it, for the parts read so far
NumObjects == Len(object_offsets)
InTable(object_ref) == 0 <= object_ref /\ object_ref < NumObjects
ObjectAt(object_ref) == reader.at[object_offsets[object_ref + 1]]
\* the object the latest call of next() read
Visited == ObjectAt(visit.object_ref)

Tag(obj) == obj.token \div 16
Nibble(obj) == obj.token % 16
DeclaredLen(obj) == IF Nibble(obj) = 15 THEN obj.ext ELSE U64(Nibble(obj))
HasLength(obj) == obj.token >= 0 /\ Tag(obj) \in {4, 5, 6, 10, 13}
\* bytes of one element of the object's content
ElemSize(obj) ==
    IF Tag(obj) \in {10, 13} THEN ref_size
    ELSE IF Tag(obj) = 6 THEN 2 ELSE 1
\* len * size > ceiling, in exact arithmetic
Exceeds(len, size, ceiling) ==
    \/ MulWide(len, size).carry > 0
    \/ ~U64Leq(MulWide(len, size).low, U64(ceiling))

\* the number of elements of the object's content
Elements(obj) ==
    IF Tag(obj) = 13 THEN 2 * Small(DeclaredLen(obj))
    ELSE Small(DeclaredLen(obj))
\* the content in stored order: bytes, units, an array's children, a
\* dictionary's keys followed by its values
StoredRefs(obj) == SubSeq(obj.avail, 1, Elements(obj))
\* the children in the order of the format: k1, v1, k2, v2, ... for a
\* dictionary
ChildrenOf(obj) ==
    LET n == Small(DeclaredLen(obj))
    IN  IF Tag(obj) = 13
        THEN [j \in 1..(2 * n) |->
                 IF j % 2 = 1 THEN obj.avail[(j + 1) \div 2]
                 ELSE obj.avail[n + (j \div 2)]]
        ELSE SubSeq(obj.avail, 1, n)

\* An integer object: the bytes of its payload, and the 16 bytes of the
\* two's complement form of its value, most significant first.  A payload
\* of 1, 2 or 4 bytes is unsigned, one of 8 or 16 bytes is signed.
IsInteger(obj) == ~obj.unread /\ obj.token >= 0 /\ Tag(obj) = 1
IntegerWidth(obj) ==
    CASE Nibble(obj) = 0 -> 1 [] Nibble(obj) = 1 -> 2 [] Nibble(obj) = 2 -> 4
      [] Nibble(obj) = 3 -> 8 [] Nibble(obj) = 4 -> 16 [] OTHER -> 0
Payload(obj) == SubSeq(obj.avail, 1, IntegerWidth(obj))
Negative(obj) == IntegerWidth(obj) >= 8 /\ Payload(obj)[1] >= 128
ValueBytes(obj) ==
    Bytes(16 - IntegerWidth(obj), IF Negative(obj) THEN 255 ELSE 0)
        \o Payload(obj)
\* 0 <= value <= 2^64 - 1
InU64(obj) == \A i \in 1..8 : ValueBytes(obj)[i] = 0
IntegerValueOf(obj) ==
    [i \in 1..8 |-> ValueBytes(obj)[2 * i - 1] * 256 + ValueBytes(obj)[2 * i]]
\* the payload is complete and the object decodes to an Integer
IntegerDecodes(obj) ==
    /\ IsInteger(obj)
    /\ IntegerWidth(obj) > 0
    /\ IntegerWidth(obj) <= Len(obj.avail)
    /\ IntegerWidth(obj) = 16 => InU64(obj)

\* a real of 4 or 8 bytes or a date of 8 bytes, stored completely
IsFloat(obj) ==
    /\ ~obj.unread
    /\ obj.token >= 0
    /\ \/ Tag(obj) = 2 /\ Nibble(obj) \in {2, 3}
       \/ Tag(obj) = 3 /\ Nibble(obj) = 3
FloatWidth(obj) == IF Nibble(obj) = 2 THEN 4 ELSE 8
FloatDecodes(obj) == IsFloat(obj) /\ FloatWidth(obj) <= Len(obj.avail)

\* an object the format defines, stored completely and within the ceiling
WellFormedObj(obj) ==
    /\ ~obj.unread
    /\ \/ obj.token \in {8, 9}
       \/ IntegerDecodes(obj)
       \/ FloatDecodes(obj)
       \/ /\ HasLength(obj)
          /\ IsSmall(DeclaredLen(obj))
          /\ Elements(obj) * ElemSize(obj) <= max_allocation_bytes
          /\ Elements(obj) <= Len(obj.avail)
          /\ Tag(obj) = 5 => \A i \in 1..Len(obj.avail) : obj.avail[i] < 128
          /\ Tag(obj) = 6 =>
                 \A i \in 1..Len(obj.avail) :
                     ~IsHighSurrogate(obj.avail[i])
                     /\ ~IsLowSurrogate(obj.avail[i])

\* the event of a well-formed object that is not inside itself
EventOf(obj) ==
    IF obj.token = 8 THEN Boolean(FALSE)
    ELSE IF obj.token = 9 THEN Boolean(TRUE)
    ELSE IF Tag(obj) = 1 THEN Integer(IntegerValueOf(obj))
    ELSE IF Tag(obj) = 2 THEN Real(SubSeq(obj.avail, 1, FloatWidth(obj)))
    ELSE IF Tag(obj) = 3 THEN Date(SubSeq(obj.avail, 1, FloatWidth(obj)))
    ELSE IF Tag(obj) = 4 THEN Data(StoredRefs(obj))
    ELSE IF Tag(obj) \in {5, 6} THEN String(StoredRefs(obj))
    ELSE IF Tag(obj) = 10 THEN StartArray(Small(DeclaredLen(obj)))
    ELSE StartDictionary(Small(DeclaredLen(obj)))

\* i refers to j: the object of index i has been read, is a well-formed
\* container and holds the reference j
RefersTo(i, j) ==
    /\ InTable(i)
    /\ IsContainer(ObjectAt(i))
    /\ WellFormedObj(ObjectAt(i))
    /\ \E k \in 1..Len(StoredRefs(ObjectAt(i))) : StoredRefs(ObjectAt(i))[k] = j

\* the indices reached from i in at least one and at most n steps
RECURSIVE ReachedFrom(_, _)
ReachedFrom(i, n) ==
    IF n = 0 THEN {}
    ELSE LET direct == {j \in Refs : RefersTo(i, j)}
         IN  direct \cup UNION {ReachedFrom(j, n - 1) : j \in direct}
OnCycle(i) == i \in ReachedFrom(i, MaxObjects)
\* the root reaches a container that reaches itself
HasCycle ==
    \E i \in {root_object} \cup ReachedFrom(root_object, MaxObjects) :
        OnCycle(i)

\* C4: a container that is reached again while its frame is on the stack
\* makes next() fail with InvalidData instead of returning a start event;
\* the stack never holds an object index twice and is never deeper than the
\* offset table is long; a source whose root reaches a cycle is never
\* decoded to the end.
C4_CycleRejected ==
    /\ visit.open => last = Err("InvalidData") /\ stack = <<>>
    /\ \A i, j \in 1..Len(stack) :
           i # j => stack[i].object_ref # stack[j].object_ref
    /\ Len(stack) <= NumObjects
    /\ Finished => ~HasCycle
\* the cycle is closed through a second container, after two start events
C4_Witness ==
    /\ visit.open
    /\ visit.object_ref = root_object
    /\ Len(events) = 2
    /\ last = Err("InvalidData")

\* the number of events of the object of index object_ref and of all that
\* it contains, an object counting once for each reference to it
RECURSIVE UnfoldedSize(_)
UnfoldedSize(object_ref) ==
    LET obj == ObjectAt(object_ref)
        kids == ChildrenOf(obj)
        Sum[k \in 0..Len(kids)] ==
            IF k = 0 THEN 0 ELSE Sum[k - 1] + UnfoldedSize(kids[k])
    IN  IF IsContainer(obj) THEN 2 + Sum[Len(kids)] ELSE 1

\* C5: a reference to a well-formed object whose frame is not on the stack
\* yields the object's event, however often the object has been visited
\* before; when the sequence has ended without an error, every object has
\* contributed its events once for each reference to it.
C5_SharingAccepted ==
    /\ (InTable(visit.object_ref) /\ WellFormedObj(Visited) /\ ~visit.open)
           => last = Ok(<<EventOf(Visited)>>)
    /\ Finished /\ events # <<>> => Len(events) = UnfoldedSize(root_object)
\* the root is an array that holds the same container twice
C5_Witness ==
    /\ Finished
    /\ InTable(root_object)
    /\ Tag(ObjectAt(root_object)) = 10
    /\ \E c \in Refs :
           /\ StoredRefs(ObjectAt(root_object)) = <<c, c>>
           /\ IsContainer(ObjectAt(c))

\* the header and trailer have been read up to the object count
CountRead ==
    /\ ~reader.trailer.unread
    /\ reader.trailer.flen >= TrailerLen - TrailerPadding
    /\ reader.trailer.magic
    /\ reader.trailer.offset_size \in {1, 2, 4, 8}
    /\ reader.trailer.ref_size \in {1, 2, 4, 8}
\* trailer start position minus 8
Ceiling ==
    saturating_sub(reader.trailer.flen - (TrailerLen - TrailerPadding),
                   MagicLen)

\* C6: a length field whose product with the element size is above the
\* ceiling, the product taken in exact arithmetic, makes next() return
\* InvalidData and no event: the length of an array, dictionary, data,
\* ASCII or UTF-16 object when the object is visited, and the object count
\* of the trailer on the first call, after which no event is ever returned.
C6_LengthCeiling ==
    /\ (/\ InTable(visit.object_ref)
        /\ HasLength(Visited)
        /\ Exceeds(DeclaredLen(Visited), ElemSize(Visited),
                   max_allocation_bytes))
           => last = Err("InvalidData")
    /\ (CountRead /\ Exceeds(reader.trailer.num_objects,
                             reader.trailer.offset_size, Ceiling))
           => error = "InvalidData" /\ events = <<>> /\ object_offsets = <<>>
\* a dictionary whose length times the reference size leaves the 64-bit
\* range
C6_Witness ==
    /\ InTable(visit.object_ref)
    /\ Tag(Visited) = 13
    /\ DeclaredLen(Visited) = U64Huge
    /\ ref_size = 2
    /\ last = Err("InvalidData")

\* the pre-order flattening of the object of index object_ref
RECURSIVE Flatten(_)
Flatten(object_ref) ==
    LET obj == ObjectAt(object_ref)
        kids == ChildrenOf(obj)
        Cat[k \in 0..Len(kids)] ==
            IF k = 0 THEN <<>> ELSE Cat[k - 1] \o Flatten(kids[k])
    IN  IF IsContainer(obj)
        THEN <<EventOf(obj)>> \o Cat[Len(kids)] \o <<EndCollection>>
        ELSE <<EventOf(obj)>>

\* every part of the source read so far is well formed: the trailer, the
\* root index, and every object with the references it holds
SourceWellFormed ==
    /\ CountRead
    /\ ~Exceeds(reader.trailer.num_objects, reader.trailer.offset_size,
                Ceiling)
    /\ Small(reader.trailer.num_objects) <= Len(reader.trailer.table)
    /\ reader.trailer.root_object < Small(reader.trailer.num_objects)
    /\ \A o \in Offsets :
           ~reader.at[o].unread =>
               /\ WellFormedObj(reader.at[o])
               /\ IsContainer(reader.at[o]) =>
                      \A k \in 1..Elements(reader.at[o]) :
                          InTable(reader.at[o].avail[k])

Called == built.tag # "-"
\* the stream whose items are the events es
Items(es) == [i \in 1..Len(es) |-> Ok(es[i])]

\* The trees of the Plist type, by the number of events that describe
\* them, and the event sequences that describe a tree: a leaf is its
\* scalar event; an array is StartArray, its elements in order, EndArray; a
\* dictionary is StartDictionary, its entries in any order, each the
\* StringValue of the key and then the value, EndDictionary.
Keys == {"a", "b"}
CommonLeaves == {PlistBoolean(TRUE), PlistString("a"), PlistString("b")}
RootLeaves ==
    {PlistData(<<1, 2>>), PlistDate("2001-01-01T00:00:00Z"), PlistInteger(7),
     PlistReal(2)}

RECURSIVE TreesOfSize(_), ForestsOfSize(_), MapsOfSize(_, _)
TreesOfSize(n) ==
    IF n = 1 THEN CommonLeaves
    ELSE {PlistArray(f) : f \in ForestsOfSize(n - 2)}
         \cup {PlistDictionary(m) : m \in MapsOfSize(Keys, n - 2)}
ForestsOfSize(n) ==
    IF n = 0 THEN {<<>>}
    ELSE UNION {{<<t>> \o f : t \in TreesOfSize(k), f \in ForestsOfSize(n - k)} :
                   k \in 1..n}
MapsOfSize(keys, n) ==
    IF n = 0 THEN {{}}
    ELSE IF keys = {} THEN {}
    ELSE LET k == CHOOSE x \in keys : TRUE
         IN  MapsOfSize(keys \ {k}, n)
             \cup UNION {{m \cup {<<k, v>>} :
                             v \in TreesOfSize(j - 1),
                             m \in MapsOfSize(keys \ {k}, n - j)} :
                            j \in 2..n}
Trees == RootLeaves \cup UNION {TreesOfSize(n) : n \in 1..MaxEvents}

LeafEvent(t) ==
    CASE t.ty = "Boolean" -> BooleanValue(t.b)
      [] t.ty = "Data" -> DataValue(t.d)
      [] t.ty = "Date" -> DateValue(t.s)
      [] t.ty = "Integer" -> IntegerValue(t.n)
      [] t.ty = "Real" -> RealValue(t.n)
      [] t.ty = "String" -> StringValue(t.s)

RECURSIVE EventsOf(_), EventsOfItems(_), EventsOfMap(_)
EventsOf(t) ==
    CASE t.ty = "Array" ->
             {<<PlistStartArray(<<>>)>> \o es \o <<EndArray>> :
                 es \in EventsOfItems(t.items)}
      [] t.ty = "Dictionary" ->
             {<<PlistStartDictionary(<<>>)>> \o es \o <<EndDictionary>> :
                 es \in EventsOfMap(t.map)}
      [] OTHER -> {<<LeafEvent(t)>>}
EventsOfItems(items) ==
    IF items = <<>> THEN {<<>>}
    ELSE {a \o b : a \in EventsOf(Head(items)),
                   b \in EventsOfItems(Tail(items))}
EventsOfMap(map) ==
    IF map = {} THEN {<<>>}
    ELSE UNION {{<<StringValue(p[1])>> \o a \o b :
                    a \in EventsOf(p[2]), b \in EventsOfMap(map \ {p})} :
                   p \in map}

\* a sequence of events alone or with the framing events around it
Framings(es) ==
    {es, <<StartPlist>> \o es, es \o <<EndPlist>>,
     <<StartPlist>> \o es \o <<EndPlist>>}
\* the pairs of a stream of at most MaxEvents items and the tree it denotes
Denotations ==
    UNION {UNION {{<<Items(f), t>> : f \in {g \in Framings(es) :
                                              Len(g) <= MaxEvents}} :
                     es \in EventsOf(t)} :
              t \in Trees}

Seen(phase, open) == [phase |-> phase, open |-> open]
Bad == Seen("Bad", <<>>)
IsScalar(e) ==
    e.e \in {"BooleanValue", "DataValue", "DateValue", "IntegerValue",
             "RealValue", "StringValue"}
Closed(open) ==
    IF Len(open) = 1 THEN Seen("Done", <<>>)
    ELSE Seen("Open", SubSeq(open, 1, Len(open) - 1))
ValueSeen(open, e) ==
    IF IsScalar(e)
    THEN IF open = <<>> THEN Seen("Done", <<>>) ELSE Seen("Open", open)
    ELSE IF e.e = "StartArray" THEN Seen("Open", Append(open, "A"))
    ELSE IF e.e = "StartDictionary" THEN Seen("Open", Append(open, "K"))
    ELSE Bad
Step(g, item) ==
    IF ~IsOk(item) THEN Bad
    ELSE LET e == item.val
             n == Len(g.open)
         IN  CASE g.phase = "Start" ->
                      IF e.e = "StartPlist" THEN Seen("Value", <<>>)
                      ELSE ValueSeen(<<>>, e)
               [] g.phase = "Value" -> ValueSeen(<<>>, e)
               [] g.phase = "Open" /\ g.open[n] = "A" ->
                      IF e.e = "EndArray" THEN Closed(g.open)
                      ELSE ValueSeen(g.open, e)
               [] g.phase = "Open" /\ g.open[n] = "K" ->
                      IF e.e = "EndDictionary" THEN Closed(g.open)
                      ELSE IF e.e = "StringValue"
                      THEN Seen("Open", [g.open EXCEPT ![n] = "V"])
                      ELSE Bad
               [] g.phase = "Open" /\ g.open[n] = "V" ->
                      ValueSeen([g.open EXCEPT ![n] = "K"], e)
               [] g.phase = "Done" ->
                      IF e.e = "EndPlist" THEN Seen("Ended", <<>>) ELSE Bad
               [] OTHER -> Bad
RECURSIVE Grammar(_)
Grammar(items) ==
    IF items = <<>> THEN Seen("Start", <<>>)
    ELSE Step(Grammar(SubSeq(items, 1, Len(items) - 1)), items[Len(items)])

\* what the grammar has seen before the item at position p of the stream
Before(p) == Grammar(SubSeq(stream, 1, p - 1))
Top(g) == IF g.phase = "Open" THEN g.open[Len(g.open)] ELSE "-"
KeyDue(g) == Top(g) = "K"
\* a value is due, or in an array a value or the end of the array
ValueDue(g) == g.phase \in {"Start", "Value"} \/ Top(g) \in {"V", "A"}

\* C9: build returns Ok only for a stream that ends with its root value
\* or with one EndPlist after the root value; an event after the root value
\* other than that EndPlist, and any event after the EndPlist, makes build
\* return InvalidEvent.
C9_OnlyCompleteStreams ==
    Called =>
        /\ IsOk(built) => Grammar(stream).phase \in {"Done", "Ended"}
        /\ \A p \in 1..Len(stream) :
               (/\ IsOk(stream[p])
                /\ \/ Before(p).phase = "Done" /\ stream[p].val.e # "EndPlist"
                   \/ Before(p).phase = "Ended")
               => built = Err("InvalidEvent")

\* C10: an event at a key of a dictionary that is neither a StringValue nor
\* EndDictionary makes build return UnsupportedDictionaryKey; an end event,
\* a framing event or the end of the stream where a value is due makes it
\* return InvalidEvent; and UnsupportedDictionaryKey is returned only for a
\* stream that goes wrong at a key.
C10_KeyErrors ==
    Called =>
        /\ \A p \in 1..Len(stream) :
               IsOk(stream[p]) =>
                   /\ (/\ KeyDue(Before(p))
                       /\ stream[p].val.e \notin {"StringValue", "EndDictionary"})
                      => built = Err("UnsupportedDictionaryKey")
                   /\ (/\ ValueDue(Before(p))
                       /\ \/ stream[p].val.e \in {"EndDictionary", "EndPlist"}
                          \/ stream[p].val.e = "EndArray" /\ Top(Before(p)) # "A"
                          \/ /\ stream[p].val.e = "StartPlist"
                             /\ Before(p).phase # "Start")
                      => built = Err("InvalidEvent")
        /\ ValueDue(Grammar(stream)) => built = Err("InvalidEvent")
        /\ built = Err("UnsupportedDictionaryKey") =>
               \/ KeyDue(Grammar(stream))
               \/ \E p \in 1..Len(stream) :
                      /\ KeyDue(Before(p))
                      /\ IsOk(stream[p])
                      /\ stream[p].val.e \notin {"StringValue", "EndDictionary"}

\* build has returned UnsupportedDictionaryKey for a dictionary whose
\* second key is a boolean
C10_Witness ==
    /\ stream = Items(<<PlistStartDictionary(<<>>), StringValue("a"),
                        BooleanValue(TRUE), BooleanValue(TRUE)>>)
    /\ built = Err("UnsupportedDictionaryKey")

C12_IntegerWidths ==
    (InTable(visit.object_ref) /\ IsInteger(Visited)) =>
        IF IntegerWidth(Visited) = 0 THEN last = Err("InvalidData")
        ELSE IntegerWidth(Visited) <= Len(Visited.avail) =>
                 IF IntegerWidth(Visited) = 16 /\ ~InU64(Visited)
                 THEN last = Err("InvalidData")
                 ELSE last = Ok(<<Integer(IntegerValueOf(Visited))>>)

\* next() has returned the Integer -1 for the 8 bytes 0xFF
C12_Witness ==
    /\ InTable(visit.object_ref)
    /\ Visited = Obj(19, U64(0), Bytes(8, 255))
    /\ last = Ok(<<Integer(<<65535, 65535, 65535, 65535, 65535, 65535,
                             65535, 65535>>)>>)

\* the indices of the objects whose flag is set, and of the objects of the
\* frames
Flagged == {i \in 0..(Len(object_on_stack) - 1) : object_on_stack[i + 1]}
Framed == {stack[k].object_ref : k \in 1..Len(stack)}

\* C13: in every reachable state, the states after an error included, the
\* objects whose object_on_stack flag is set are exactly the objects of the
\* frames of the stack, and there are as many of them as frames.
C13_BitmapIsStack ==
    /\ Flagged = Framed
    /\ Cardinality(Flagged) = Len(stack)

\* C14: no buffer that a call of next() allocates from a length field is
\* larger, in bytes, than max_allocation_bytes.
C14_BuffersWithinCeiling ==
    \A i \in 1..Len(allocated) : allocated[i] <= max_allocation_bytes

\* C15: a call of next() that looks up an object index that is not below
\* the number of entries of the offset table, be it the root index or a
\* child reference taken from a frame, returns InvalidData, reads no object
\* and sets no flag of object_on_stack; an object is read only at the
\* offset of an index of the table.
C15_IndexChecked ==
    [][/\ (visit'.object_ref # -1 /\ ~InTable(visit.object_ref)')
          => /\ last' = Err("InvalidData")
             /\ reader'.at = reader.at
             /\ \A i \in 1..Len(object_on_stack') :
                    object_on_stack'[i]
                    = (i <= Len(object_on_stack) /\ object_on_stack[i])
       /\ reader'.at # reader.at => InTable(visit.object_ref)'
      ]_vars

\* a child reference past the offset table has made next() fail after the
\* start event of its container
C15_Witness ==
    /\ Len(events) >= 1
    /\ visit.object_ref >= NumObjects
    /\ NumObjects >= 1
    /\ last = Err("InvalidData")

\* the three checks of the initialisation, on the header and trailer read
MagicOk == reader.trailer.flen >= MagicLen /\ reader.trailer.magic
WidthsOk ==
    /\ reader.trailer.offset_size \in {1, 2, 4, 8}
    /\ reader.trailer.ref_size \in {1, 2, 4, 8}

\* C16: when the source does not start with the magic number, or the
\* offset width or the reference width of its trailer is not 1, 2, 4 or 8,
\* the first call of next() returns an error, and then and ever after the
\* decoder has returned no event, read no object and has no offset table.
C16_InitChecks ==
    (~reader.trailer.unread /\ ~(MagicOk /\ WidthsOk)) =>
        /\ Failed
        /\ events = <<>>
        /\ last = None \/ ~IsOk(last)
        /\ \A o \in Offsets : reader.at[o].unread
        /\ object_offsets = <<>>

\* a source with the magic number and a reference width of 3, called twice
C16_Witness ==
    /\ ~reader.trailer.unread
    /\ MagicOk
    /\ reader.trailer.ref_size = 3
    /\ reader.trailer.num_objects = U64(1)
    /\ error = "InvalidData"
    /\ last = None

\* a header that is no supported combination of type tag and size nibble:
\* tag 0 other than the booleans, a real that has not 4 or 8 bytes, a date
\* that has not 8 bytes, a tag that is none of 0 to 6, 0xA and 0xD
Unsupported(obj) ==
    /\ ~obj.unread
    /\ obj.token >= 0
    /\ \/ Tag(obj) = 0 /\ Nibble(obj) \notin {8, 9}
       \/ Tag(obj) = 2 /\ Nibble(obj) \notin {2, 3}
       \/ Tag(obj) = 3 /\ Nibble(obj) # 3
       \/ Tag(obj) \notin {0, 1, 2, 3, 4, 5, 6, 10, 13}

\* C17: the call of next() that visits an object with an unsupported header
\* returns InvalidData, whatever follows the header.
C17_UnsupportedHeaders ==
    (InTable(visit.object_ref) /\ Unsupported(Visited))
        => last = Err("InvalidData")

\* a null object inside a container has made next() fail
C17_Witness ==
    /\ InTable(visit.object_ref)
    /\ Visited.token = 0
    /\ Len(events) >= 1
    /\ last = Err("InvalidData")

\* the source read is one on which the initialisation succeeds: the checks
\* of C16 pass, the offset table is within the ceiling and is stored
\* completely
InitOk ==
    /\ CountRead
    /\ ~Exceeds(reader.trailer.num_objects, reader.trailer.offset_size,
                Ceiling)
    /\ Small(reader.trailer.num_objects) <= Len(reader.trailer.table)

\* C18: before the first call of next() nothing of the source is read and
\* the fields are those of new; once the initialisation has succeeded, in
\* every later state the offset table has as many entries as the trailer
\* declares and the reference width, the root index and the ceiling are
\* those of the trailer, and no call changes any of the four.
C18_ParsedOnce ==
    /\ [](last = NotCalled =>
              /\ reader.trailer.unread
              /\ \A o \in Offsets : reader.at[o].unread
              /\ Self = new)
    /\ [](InitOk =>
              /\ Len(object_offsets) = Small(reader.trailer.num_objects)
              /\ ref_size = reader.trailer.ref_size
              /\ root_object = reader.trailer.root_object
              /\ max_allocation_bytes = Ceiling)
    /\ [][InitOk => UNCHANGED <<object_offsets, ref_size, root_object,
                                max_allocation_bytes>>]_vars

\* an offset table of MaxObjects entries after calls that returned events
\* and then an error
C18_Witness ==
    /\ InitOk
    /\ Len(object_offsets) = MaxObjects
    /\ Len(events) >= 2
    /\ Failed

\* start events minus EndCollection events among the events returned
Depth == Starts(Len(events)) - Ends(Len(events))
\* the root object has been read and is a well-formed object
RootRead ==
    /\ InitOk
    /\ InTable(root_object)
    /\ ~ObjectAt(root_object).unread
    /\ WellFormedObj(ObjectAt(root_object))

\* C19 as stated: in every state the depth of the stack is the number of
\* start events minus the number of EndCollection events returned.
C19_DepthAlways == Len(stack) = Depth

\* C19, amended: as long as no call has returned an error the depth of the
\* stack is the number of start events minus the number of EndCollection
\* events returned, and once a call has returned an error the stack is
\* empty; after a successful initialisation a call returns None exactly
\* when the stack is empty at the call; a scalar root gives its one event
\* and nothing else, an empty root container its start event and then one
\* EndCollection.
C19_DepthTracksEvents ==
    /\ [](~Failed => Len(stack) = Depth)
    /\ [](Failed => stack = <<>>)
    /\ [][InitOk => ((last' = None) <=> (stack = <<>>))]_vars
    /\ [](RootRead /\ ~IsContainer(ObjectAt(root_object)) =>
              /\ events = <<EventOf(ObjectAt(root_object))>>
              /\ ~Failed)
    /\ [](/\ RootRead
          /\ IsContainer(ObjectAt(root_object))
          /\ DeclaredLen(ObjectAt(root_object)) = U64(0)
          => /\ events \in {<<EventOf(ObjectAt(root_object))>>,
                            <<EventOf(ObjectAt(root_object)), EndCollection>>}
             /\ Len(events) = 2 <=> stack = <<>>
             /\ ~Failed)

\* two containers are open after another one has been closed
C19_Witness ==
    /\ ~Failed
    /\ Len(stack) = 2
    /\ Ends(Len(events)) >= 1

\* ------------------------------------------- more of the Builder's properties
\* The entries of a dictionary as its events give them: sequences of a key
\* and a value tree in which a key comes more than once, short enough for
\* a stream of MaxEvents items.
ValueTrees == UNION {TreesOfSize(n) : n \in 1..(MaxEvents - 5)}
EntriesOfLen(n) == [1..n -> Keys \X ValueTrees]
DupEntries ==
    {en \in UNION {EntriesOfLen(n) : n \in 2..((MaxEvents - 2) \div 2)} :
        \E i, j \in 1..Len(en) : i < j /\ en[i][1] = en[j][1]}
RECURSIVE EntryEvents(_)
EntryEvents(en) ==
    IF en = <<>> THEN {<<>>}
    ELSE {<<StringValue(en[1][1])>> \o a \o b :
             a \in EventsOf(en[1][2]), b \in EntryEvents(Tail(en))}
\* each key once, with the value of its last entry
LastWins(en) ==
    {<<en[i][1], en[i][2]>> :
        i \in {j \in 1..Len(en) :
                  \A k \in (j + 1)..Len(en) : en[k][1] # en[j][1]}}
\* the pairs of a stream of a dictionary with a repeated key and its map
DupDenotations ==
    UNION {UNION {{<<Items(f), LastWins(en)>> :
                      f \in {g \in Framings(<<PlistStartDictionary(<<>>)>>
                                            \o es \o <<EndDictionary>>) :
                                Len(g) <= MaxEvents}} :
                     es \in EntryEvents(en)} :
              en \in DupEntries}

RootAt(s) ==
    IF Len(s) >= 1 /\ IsOk(s[1]) /\ s[1].val.e = "StartPlist" THEN 2 ELSE 1
\* the root value of s begins with a start event that declares a length
Declares(s) ==
    /\ RootAt(s) <= Len(s)
    /\ IsOk(s[RootAt(s)])
    /\ s[RootAt(s)].val.e \in {"StartArray", "StartDictionary"}
    /\ s[RootAt(s)].val.len # <<>>
\* the stream s with the declared length taken out of that start event
Undeclared(s) ==
    [i \in 1..Len(s) |->
        IF i = RootAt(s) THEN Ok([s[i].val EXCEPT !.len = <<>>]) ELSE s[i]]

\* C21: for the events of an array or a dictionary whose start event
\* declares a length, be it smaller than, equal to or larger than the
\* number of elements or entries that follow, build returns Ok with the
\* tree of those elements or entries.  build takes the items one by one:
\* what it returns without having asked for more than a beginning of the
\* stream is what it returns for the whole stream.
C21_LengthIsHint ==
    (Called /\ Declares(stream)) =>
        \A u \in {Undeclared(stream)} : \A p \in Denotations :
            /\ u = p[1] => built = Ok(p[2])
            /\ (/\ pulled <= Len(u)
                /\ Len(u) < Len(p[1])
                /\ u = SubSeq(p[1], 1, Len(u))) => built = Ok(p[2])

\* C22: no call of next() panics: the result of a call is never a panic,
\* object_on_stack has the length of the offset table, and the object index
\* of every frame of the stack is below that length.
C22_NoPanic ==
    /\ ~IsPanic(last)
    /\ Len(object_on_stack) = Len(object_offsets)
    /\ \A k \in 1..Len(stack) : stack[k].object_ref < Len(object_on_stack)

\* a dictionary with entries has been pushed, its keys and values
\* interleaved, and popped, and the sequence has ended
C22_Witness ==
    /\ Finished
    /\ \E k \in 1..Len(events) :
           events[k].e = "StartDictionary" /\ events[k].n >= 1
    /\ events[Len(events)] = EndCollection
====
